---- MODULE Spec2Model ----
(***************************************************************************)
(* A model of the vocabulary and batch-loading code of the repository:     *)
(*   models/common/vocab.py   Vocab, ComposedVocab                         *)
(*   models/lemma/loader.py   DataLoader (lemmatizer)                      *)
(*   models/mwt/data.py       DataLoader (multi-word-token expander)       *)
(*                                                                         *)
(* Python values are tagged records [t, v] so that Python's equality       *)
(* between values of different types ("a" == 0 is False) is defined.  A    *)
(* str is a sequence of one-character strings; a dict is the sequence of   *)
(* its <<key, value>> pairs in insertion order.                            *)
(***************************************************************************)
EXTENDS Integers, Sequences, FiniteSets, TLC

VARIABLES
    file,      \* content of the vocabulary file: NoFile, or the pickle stream
    V,         \* the Vocab object whose constructor ran build_vocab and save
    corpus,    \* self.data of V: the corpus build_vocab read
    W,         \* the Vocab object most recently constructed by load()
    last,      \* the most recent call on V or W, with its outcome
    loader,    \* the DataLoader object: NoLoader until one is constructed
    examples,  \* DataLoader.__init__: data after preprocess
    shuffled,  \* DataLoader.__init__: data after the shuffle, before chunking
    batch,     \* the outcome of the most recent DataLoader.__getitem__
    disk,      \* which of the loader's vocabulary files exist
    made,      \* the outcome of the most recent DataLoader construction
    encoded,   \* what the model derived from the batch to encode it
    greedy,    \* the run of Seq2SeqModel.predict_greedy: its locals
    search     \* the run of Seq2SeqModel.predict: its locals and its beams

vocabVars == <<file, V, corpus, W, last>>

loaderVars == <<loader, examples, shuffled, batch, disk, made, encoded>>

decoderVars == <<greedy, search>>

vars == <<file, V, corpus, W, last, loader, examples, shuffled, batch, disk, made,
          encoded, greedy, search>>

-----------------------------------------------------------------------------
(* Python values *)

PyStr(s) == [t |-> "str", v |-> s]
PyInt(n) == [t |-> "int", v |-> n]
PyList(xs) == [t |-> "list", v |-> xs]
PyDict(ps) == [t |-> "dict", v |-> ps]
PyODict(ps) == [t |-> "odict", v |-> ps]
None == [t |-> "None", v |-> 0]

IsMapping(d) == d.t \in {"dict", "odict"}

\* the outcome of a call: a returned value or a raised exception
Ok(val) == [exc |-> "none", val |-> val]
Raise(e) == [exc |-> e, val |-> None]

Range(s) == {s[i] : i \in 1..Len(s)}

RECURSIVE Concat(_)
Concat(ss) == IF ss = <<>> THEN <<>> ELSE Head(ss) \o Concat(Tail(ss))

\* k in d
DictHas(d, k) == \E i \in 1..Len(d.v) : d.v[i][1] = k

\* d[k], for k in d
DictGet(d, k) == d.v[CHOOSE i \in 1..Len(d.v) : d.v[i][1] = k][2]

\* d[k] = val: a new key goes last, an old key keeps its place
DictSet(d, k, val) ==
    IF DictHas(d, k)
    THEN [d EXCEPT !.v = [i \in 1..Len(d.v) |->
                            IF d.v[i][1] = k THEN <<k, val>> ELSE d.v[i]]]
    ELSE [d EXCEPT !.v = Append(d.v, <<k, val>>)]

\* list(d): the keys in iteration order
DictKeys(d) == [i \in 1..Len(d.v) |-> d.v[i][1]]

\* x in lst
ListHas(lst, x) == \E i \in 1..Len(lst.v) : lst.v[i] = x

\* lst[i] with Python's indexing: a negative i counts from the end
ListGet(lst, i) ==
    LET n == Len(lst.v) IN
    IF 0 <= i /\ i < n THEN Ok(lst.v[i + 1])
    ELSE IF -n <= i /\ i < 0 THEN Ok(lst.v[n + i + 1])
    ELSE Raise("IndexError")

-----------------------------------------------------------------------------
(* pickle: dump writes one object as a stream of opcodes ending in STOP,    *)
(* load runs the stream on a stack machine up to the next STOP.             *)

Tok(op, v) == [op |-> op, v |-> v]
OrderedDictClass == <<"c", "o", "l", "l", "e", "c", "t", "i", "o", "n", "s", ".",
                      "O", "r", "d", "e", "r", "e", "d", "D", "i", "c", "t">>

RECURSIVE Pickle(_)
Pickle(x) ==
    CASE x.t = "str" -> <<Tok("BINUNICODE", x.v)>>
      [] x.t = "int" -> <<Tok("BININT", x.v)>>
      [] x.t = "list" ->
            <<Tok("EMPTY_LIST", 0), Tok("MARK", 0)>>
            \o Concat([i \in 1..Len(x.v) |-> Pickle(x.v[i])])
            \o <<Tok("APPENDS", 0)>>
      [] x.t = "dict" ->
            <<Tok("EMPTY_DICT", 0), Tok("MARK", 0)>>
            \o Concat([i \in 1..Len(x.v) |-> Pickle(x.v[i][1]) \o Pickle(x.v[i][2])])
            \o <<Tok("SETITEMS", 0)>>
      [] x.t = "odict" ->
            <<Tok("GLOBAL", OrderedDictClass), Tok("EMPTY_TUPLE", 0), Tok("REDUCE", 0),
              Tok("MARK", 0)>>
            \o Concat([i \in 1..Len(x.v) |-> Pickle(x.v[i][1]) \o Pickle(x.v[i][2])])
            \o <<Tok("SETITEMS", 0)>>

\* pickle.dump(obj, f): the bytes written
pickle_dump(obj) == Pickle(obj) \o <<Tok("STOP", 0)>>

Mark == [t |-> "mark", v |-> 0]

TopMark(stack) ==
    CHOOSE m \in 1..Len(stack) :
        stack[m].t = "mark" /\ \A j \in (m + 1)..Len(stack) : stack[j].t # "mark"

RECURSIVE SetItems(_, _)
SetItems(d, items) ==
    IF Len(items) < 2 THEN d
    ELSE SetItems(DictSet(d, items[1], items[2]), SubSeq(items, 3, Len(items)))

RECURSIVE Unpickle(_, _)
Unpickle(toks, stack) ==
    LET tk == Head(toks)
        rest == Tail(toks)
        n == Len(stack)
    IN  CASE tk.op = "STOP" -> [val |-> stack[n], rest |-> rest]
          [] tk.op = "BINUNICODE" -> Unpickle(rest, Append(stack, PyStr(tk.v)))
          [] tk.op = "BININT" -> Unpickle(rest, Append(stack, PyInt(tk.v)))
          [] tk.op = "EMPTY_LIST" -> Unpickle(rest, Append(stack, PyList(<<>>)))
          [] tk.op = "EMPTY_DICT" -> Unpickle(rest, Append(stack, PyDict(<<>>)))
          [] tk.op = "GLOBAL" -> Unpickle(rest, Append(stack, [t |-> "class", v |-> tk.v]))
          [] tk.op = "EMPTY_TUPLE" -> Unpickle(rest, Append(stack, [t |-> "tuple", v |-> <<>>]))
          [] tk.op = "REDUCE" ->
                \* call the class on the argument tuple: OrderedDict()
                Unpickle(rest, Append(SubSeq(stack, 1, n - 2), PyODict(<<>>)))
          [] tk.op = "MARK" -> Unpickle(rest, Append(stack, Mark))
          [] tk.op = "APPENDS" ->
                LET m == TopMark(stack)
                    lst == stack[m - 1]
                IN  Unpickle(rest, Append(SubSeq(stack, 1, m - 2),
                                          PyList(lst.v \o SubSeq(stack, m + 1, n))))
          [] tk.op = "SETITEMS" ->
                LET m == TopMark(stack)
                IN  Unpickle(rest, Append(SubSeq(stack, 1, m - 2),
                                          SetItems(stack[m - 1], SubSeq(stack, m + 1, n))))

\* pickle.load(f): the object read and the rest of the stream
pickle_load(bytes) == Unpickle(bytes, <<>>)

-----------------------------------------------------------------------------
(* models/common/vocab.py *)

PAD == PyStr(<<"<", "P", "A", "D", ">">>)
UNK == PyStr(<<"<", "U", "N", "K", ">">>)
PAD_ID == 0
VOCAB_PREFIX == <<PAD>>

NoObj == [cls |-> "none"]
NoFile == [exists |-> FALSE, bytes |-> <<>>]

\* Vocab.save: the bytes the two dumps write to the file
Vocab_save(self) == pickle_dump(self.id2unit) \o pickle_dump(self.unit2id)

\* Vocab.load with the two tables read in the other order
Vocab_load_swapped(bytes) ==
    LET first == pickle_load(bytes)
        second == pickle_load(first.rest)
    IN  [id2unit |-> second.val, unit2id |-> first.val]

\* Vocab.load: the two tables the two loads read from the file
Vocab_load(bytes) ==
    LET first == pickle_load(bytes)
        second == pickle_load(first.rest)
    IN  [id2unit |-> first.val, unit2id |-> second.val]

\* Vocab.normalize_unit
Vocab_normalize_unit(unit) == unit

\* Vocab.unit2id with the test for a known unit inverted
Vocab_unit2id_inverted(self, unit0) ==
    LET unit == Vocab_normalize_unit(unit0) IN
    IF ~DictHas(self.unit2id, unit)
    THEN Raise("KeyError")
    ELSE IF DictHas(self.unit2id, UNK) THEN Ok(DictGet(self.unit2id, UNK))
    ELSE Raise("KeyError")

\* Vocab.unit2id
Vocab_unit2id(self, unit0) ==
    LET unit == Vocab_normalize_unit(unit0) IN
    IF DictHas(self.unit2id, unit) THEN Ok(DictGet(self.unit2id, unit))
    ELSE IF DictHas(self.unit2id, UNK) THEN Ok(DictGet(self.unit2id, UNK))
    ELSE Raise("KeyError")

\* Vocab.id2unit: self._id2unit[id], on the list a Vocab builds or on the
\* mapping a file written by a ComposedVocab holds
Vocab_id2unit(self, id) ==
    IF self.id2unit.t = "list" THEN ListGet(self.id2unit, id)
    ELSE IF DictHas(self.id2unit, PyInt(id)) THEN Ok(DictGet(self.id2unit, PyInt(id)))
    ELSE Raise("KeyError")

\* Vocab.__len__ / Vocab.size
Vocab_len(self) == Len(self.id2unit.v)

\* Vocab.__contains__
Vocab_contains(self, key) == DictHas(self.unit2id, key)

\* s.split(c) for a one-character separator c
RECURSIVE str_split(_, _)
str_split(s, c) ==
    IF c \notin Range(s) THEN <<s>>
    ELSE LET i == CHOOSE i \in 1..Len(s) : s[i] = c /\ \A j \in 1..(i - 1) : s[j] # c
         IN  <<SubSeq(s, 1, i - 1)>> \o str_split(SubSeq(s, i + 1, Len(s)), c)

\* dict(pairs): a later pair with the same key replaces the value
RECURSIVE dict_of(_, _)
dict_of(d, pairs) ==
    IF pairs = <<>> THEN d
    ELSE dict_of(DictSet(d, Head(pairs)[1], Head(pairs)[2]), Tail(pairs))

\* ComposedVocab.unit2parts
ComposedVocab_unit2parts(self, unit) ==
    LET parts == IF self.sep = <<>>
                 THEN [i \in 1..Len(unit.v) |-> <<unit.v[i]>>]
                 ELSE str_split(unit.v, self.sep[1])
    IN  IF ~self.keyed THEN Ok(PyList([i \in 1..Len(parts) |-> PyStr(parts[i])]))
        ELSE IF Len(parts) = 1 /\ parts[1] = <<"_">> THEN Ok(PyDict(<<>>))
        ELSE LET kv == [i \in 1..Len(parts) |-> str_split(parts[i], "=")]
             IN  IF \E i \in 1..Len(kv) : Len(kv[i]) # 2
                 THEN Raise("ValueError")      \* for x, y in parts
                 ELSE Ok(dict_of(PyDict(<<>>),
                        [i \in 1..Len(kv) |->
                            <<PyStr(kv[i][1]),
                              LET vs == str_split(kv[i][2], ",")
                              IN  PyList([j \in 1..Len(vs) |-> PyStr(vs[j])])>>]))

\* self._unit2id[k][x] for x in xs: the first failing lookup raises
SubIds(sub, xs) ==
    IF ~IsMapping(sub) THEN Raise("TypeError")
    ELSE IF \E j \in 1..Len(xs) : ~DictHas(sub, xs[j]) THEN Raise("KeyError")
    ELSE Ok(PyList([j \in 1..Len(xs) |-> DictGet(sub, xs[j])]))

\* the list a comprehension builds, or the exception of its first failing entry
Collect(entries) ==
    IF \E i \in 1..Len(entries) : entries[i].exc # "none"
    THEN entries[CHOOSE i \in 1..Len(entries) :
                    /\ entries[i].exc # "none"
                    /\ \A j \in 1..(i - 1) : entries[j].exc = "none"]
    ELSE Ok(PyList([i \in 1..Len(entries) |-> entries[i].val]))

\* ComposedVocab.unit2id, keyed branch
KeyedUnit2id(self, parts) ==
    LET keys == DictKeys(self.unit2id)
    IN  Collect([i \in 1..Len(keys) |->
            IF DictHas(parts, keys[i])
            THEN SubIds(DictGet(self.unit2id, keys[i]), DictGet(parts, keys[i]).v)
            ELSE Ok(PyList(<<PyInt(0)>>))])

\* the positional branch ranging over the parts of the unit instead of the
\* fields of the vocabulary
PositionalUnit2id_over_parts(self, parts) ==
    Collect([n \in 1..Len(parts.v) |->
        IF ~DictHas(self.unit2id, PyInt(n - 1)) THEN Raise("KeyError")
        ELSE LET sub == DictGet(self.unit2id, PyInt(n - 1))
             IN  IF DictHas(sub, parts.v[n]) THEN Ok(DictGet(sub, parts.v[n]))
                 ELSE Ok(PyInt(0))])

\* ComposedVocab.unit2id, positional branch
PositionalUnit2id(self, parts) ==
    Collect([n \in 1..Len(self.unit2id.v) |->
        LET i == n - 1 IN
        IF i < Len(parts.v)
        THEN IF ~DictHas(self.unit2id, PyInt(i)) THEN Raise("KeyError")
             ELSE LET sub == DictGet(self.unit2id, PyInt(i))
                  IN  IF ~IsMapping(sub) THEN Raise("AttributeError")
                      ELSE IF DictHas(sub, parts.v[n]) THEN Ok(DictGet(sub, parts.v[n]))
                      ELSE Ok(PyInt(0))
        ELSE Ok(PyInt(0))])

\* ComposedVocab.unit2id
ComposedVocab_unit2id(self, unit) ==
    LET parts == ComposedVocab_unit2parts(self, unit) IN
    IF parts.exc # "none" THEN parts
    ELSE IF self.keyed THEN KeyedUnit2id(self, parts.val)
    ELSE PositionalUnit2id(self, parts.val)

\* ComposedVocab.id2unit
ComposedVocab_id2unit(self, id) == Raise("NotImplementedError")

\* allunits = [w[self.idx] for sent in self.data for w in sent]
AllUnits(self, data) ==
    Concat([s \in 1..Len(data) |->
                [j \in 1..Len(data[s]) |-> data[s][j][self.idx + 1]]])

\* if key not in self._id2unit: self._id2unit[key] = copy(VOCAB_PREFIX)
AddField(d, key) ==
    IF DictHas(d, key) THEN d ELSE DictSet(d, key, PyList(VOCAB_PREFIX))

\* the append without the test for a value already listed
AddValue_unchecked(lst, v) == PyList(Append(lst.v, v))

\* if v not in self._id2unit[key]: self._id2unit[key].append(v)
AddValue(lst, v) ==
    IF ListHas(lst, v) THEN lst ELSE PyList(Append(lst.v, v))

\* for v in parts[key]: ...
RECURSIVE AddValues(_, _, _)
AddValues(d, key, vals) ==
    IF vals = <<>> THEN d
    ELSE AddValues(DictSet(d, key, AddValue(DictGet(d, key), Head(vals))), key, Tail(vals))

\* for key in parts: ...
RECURSIVE AddKeyedParts(_, _, _)
AddKeyedParts(d, parts, keys) ==
    IF keys = <<>> THEN d
    ELSE AddKeyedParts(AddValues(AddField(d, Head(keys)), Head(keys),
                                 DictGet(parts, Head(keys)).v),
                       parts, Tail(keys))

\* the keyed loop of build_vocab: for u in allunits: ...
RECURSIVE BuildKeyed(_, _, _)
BuildKeyed(self, d, units) ==
    IF units = <<>> THEN Ok(d)
    ELSE LET parts == ComposedVocab_unit2parts(self, Head(units))
         IN  IF parts.exc # "none" THEN parts
             ELSE BuildKeyed(self, AddKeyedParts(d, parts.val, DictKeys(parts.val)),
                             Tail(units))

\* for i, p in enumerate(parts): ..., from position n of parts on
RECURSIVE AddPositionalParts(_, _, _)
AddPositionalParts(d, parts, n) ==
    IF n > Len(parts) THEN d
    ELSE LET i == PyInt(n - 1)
             d1 == AddField(d, i)
             d2 == IF n - 1 < Len(parts)
                   THEN DictSet(d1, i, AddValue(DictGet(d1, i), parts[n]))
                   ELSE d1
         IN  AddPositionalParts(d2, parts, n + 1)

\* the positional loop of build_vocab: for parts in allparts: ...
RECURSIVE BuildPositional(_, _)
BuildPositional(d, allparts) ==
    IF allparts = <<>> THEN d
    ELSE BuildPositional(AddPositionalParts(d, Head(allparts).v, 1), Tail(allparts))

\* {w: i for i, w in enumerate(lst)}
RECURSIVE Enumerate(_, _, _)
Enumerate(d, ws, i) ==
    IF ws = <<>> THEN d
    ELSE Enumerate(DictSet(d, Head(ws), PyInt(i)), Tail(ws), i + 1)

\* self._unit2id = {k: {w: i for i, w in enumerate(self._id2unit[k])} for k in self._id2unit}
InvertFields(id2unit) ==
    PyDict([n \in 1..Len(id2unit.v) |->
        <<id2unit.v[n][1], Enumerate(PyDict(<<>>), id2unit.v[n][2].v, 0)>>])

\* ComposedVocab.build_vocab: the two tables, or the exception raised
ComposedVocab_build_vocab(self, data) ==
    LET allunits == AllUnits(self, data) IN
    IF self.keyed
    THEN LET b == BuildKeyed(self, PyODict(<<>>), allunits)
         IN  IF b.exc # "none" THEN b
             ELSE Ok([id2unit |-> b.val, unit2id |-> InvertFields(b.val)])
    ELSE LET allparts == [n \in 1..Len(allunits) |->
                             ComposedVocab_unit2parts(self, allunits[n]).val]
         IN  IF allparts = <<>> THEN Raise("ValueError")    \* max([])
             ELSE LET d == BuildPositional(PyODict(<<>>), allparts)
                  IN  Ok([id2unit |-> d, unit2id |-> InvertFields(d)])

\* the units of a sequence, each once, in order of first occurrence
RECURSIVE FirstSeen(_, _)
FirstSeen(acc, units) ==
    IF units = <<>> THEN acc
    ELSE FirstSeen(IF Head(units) \in Range(acc) THEN acc ELSE Append(acc, Head(units)),
                   Tail(units))

\* build_vocab of the unit vocabularies (the subclasses of Vocab that map
\* single units): PAD at id 0, the reserved UNK, then the units of the corpus
Vocab_build_vocab(self, data) ==
    LET id2unit == FirstSeen(<<PAD, UNK>>, AllUnits(self, data))
    IN  Ok([id2unit |-> PyList(id2unit),
            unit2id |-> Enumerate(PyDict(<<>>), id2unit, 0)])

build_vocab(self, data) ==
    IF self.cls = "ComposedVocab" THEN ComposedVocab_build_vocab(self, data)
    ELSE Vocab_build_vocab(self, data)

unit2id(self, unit) ==
    IF self.cls = "ComposedVocab" THEN ComposedVocab_unit2id(self, unit)
    ELSE Vocab_unit2id(self, unit)

id2unit(self, id) ==
    IF self.cls = "ComposedVocab" THEN ComposedVocab_id2unit(self, id)
    ELSE Vocab_id2unit(self, id)

-----------------------------------------------------------------------------
(* The vocabulary objects, the vocabulary file and the calls made on them *)

MaxCorpus == 2      \* words in the corpus handed to a constructor

\* tags of the keyed form and of the form split at "|"
KeyedUnits ==
    { <<"_">>,
      <<"C", "=", "N">>,
      <<"C", "=", "G">>,
      <<"C", "=", "N", "|", "M", "=", "S">>,
      <<"M", "=", "S", ",", "P">> }

\* units split per character
PositionalUnits == { <<>>, <<"a">>, <<"a", "b">>, <<"a", "b", "c">>, <<"b", "a">> }

\* units of a unit vocabulary
PlainUnits == { <<"a">>, <<"b">>, <<"a", "b">> }

\* a unit no corpus holds
UnseenUnit == <<"z">>

\* the constructor calls: Vocab(...) of a unit vocabulary and
\* ComposedVocab(..., sep=, keyed=)
Kinds ==
    { [cls |-> "Vocab", sep |-> <<>>, keyed |-> FALSE],
      [cls |-> "ComposedVocab", sep |-> <<>>, keyed |-> FALSE],
      [cls |-> "ComposedVocab", sep |-> <<"|">>, keyed |-> FALSE],
      [cls |-> "ComposedVocab", sep |-> <<"|">>, keyed |-> TRUE],
      [cls |-> "ComposedVocab", sep |-> <<>>, keyed |-> TRUE] }

UnitsOf(kind) ==
    IF kind.cls = "Vocab" THEN PlainUnits
    ELSE IF kind.sep = <<>> /\ ~kind.keyed THEN PositionalUnits
    ELSE KeyedUnits

\* data: sentences of words, a word being the tuple of its fields; the
\* first word is a sentence of its own
DataOf(units) ==
    LET word(n) == <<PyStr(units[n])>> IN
    IF Len(units) = 0 THEN <<>>
    ELSE IF Len(units) = 1 THEN << <<word(1)>> >>
    ELSE << <<word(1)>>, [n \in 1..(Len(units) - 1) |-> word(n + 1)] >>

Corpora(kind) ==
    { DataOf(us) : us \in UNION { [1..n -> UnitsOf(kind)] : n \in 0..MaxCorpus } }

NoCall == [op |-> "none", on |-> "none", arg |-> None, ret |-> Ok(None)]

NoLoader == [task |-> "none"]
NoBatch == [key |-> 0, exc |-> "nocall"]
NoDisk == [vocab |-> FALSE, pos |-> FALSE]
NoMade == [exc |-> "nocall"]
NoEncoded == [of |-> "none"]
NoGreedy == [pc |-> "idle"]
NoSearch == [pc |-> "idle"]

\* no DataLoader is at work
LoaderIdle ==
    /\ loader = NoLoader
    /\ examples = <<>>
    /\ shuffled = <<>>
    /\ batch = NoBatch
    /\ disk = NoDisk
    /\ made = NoMade
    /\ encoded = NoEncoded

\* no vocabulary is at work
VocabIdle ==
    /\ file = NoFile
    /\ V = NoObj
    /\ corpus = <<>>
    /\ W = NoObj
    /\ last = NoCall

\* no decoder is at work
DecoderIdle ==
    /\ greedy = NoGreedy
    /\ search = NoSearch

Obj(name) == IF name = "V" THEN V ELSE W

VocabInit == VocabIdle /\ LoaderIdle /\ DecoderIdle

\* the units and ids the callers of an object look up
CallUnits(self) == UnitsOf(self) \cup {UnseenUnit}

CallIds(self) ==
    IF self.cls = "ComposedVocab" THEN {0}
    ELSE (0 - (Vocab_len(self) + 1))..(Vocab_len(self) + 1)

\* Vocab.__init__ / ComposedVocab.__init__
Construct(kind) ==
    LET self == [cls |-> kind.cls, sep |-> kind.sep, keyed |-> kind.keyed, idx |-> 0]
    IN  IF file.exists
        THEN LET t == Vocab_load(file.bytes)
             IN  /\ W' = [cls |-> self.cls, sep |-> self.sep, keyed |-> self.keyed,
                          idx |-> self.idx, id2unit |-> t.id2unit, unit2id |-> t.unit2id]
                 /\ last' = [op |-> "init", on |-> "W", arg |-> None, ret |-> Ok(None)]
                 /\ UNCHANGED <<file, V, corpus, loaderVars, decoderVars>>
        ELSE \E data \in Corpora(kind) :
             LET b == build_vocab(self, data)
                 obj == [cls |-> self.cls, sep |-> self.sep, keyed |-> self.keyed,
                         idx |-> self.idx, id2unit |-> b.val.id2unit,
                         unit2id |-> b.val.unit2id]
             IN  IF b.exc = "none"
                 THEN /\ V' = obj
                      /\ corpus' = data
                      /\ file' = [exists |-> TRUE, bytes |-> Vocab_save(obj)]
                      /\ last' = [op |-> "init", on |-> "V", arg |-> None, ret |-> Ok(None)]
                      /\ UNCHANGED <<W, loaderVars, decoderVars>>
                 ELSE /\ last' = [op |-> "init", on |-> "none", arg |-> None, ret |-> b]
                      /\ UNCHANGED <<file, V, corpus, W, loaderVars, decoderVars>>

\* vocab.unit2id(unit)
CallUnit2id(name, unit) ==
    /\ Obj(name) # NoObj
    /\ unit \in CallUnits(Obj(name))
    /\ last' = [op |-> "unit2id", on |-> name, arg |-> PyStr(unit),
                ret |-> unit2id(Obj(name), PyStr(unit))]
    /\ UNCHANGED <<file, V, corpus, W, loaderVars, decoderVars>>

\* vocab.id2unit(id)
CallId2unit(name, id) ==
    /\ Obj(name) # NoObj
    /\ id \in CallIds(Obj(name))
    /\ last' = [op |-> "id2unit", on |-> name, arg |-> PyInt(id),
                ret |-> id2unit(Obj(name), id)]
    /\ UNCHANGED <<file, V, corpus, W, loaderVars, decoderVars>>

\* vocab.save()
CallSave(name) ==
    /\ Obj(name) # NoObj
    /\ file' = [exists |-> TRUE, bytes |-> Vocab_save(Obj(name))]
    /\ last' = [op |-> "save", on |-> name, arg |-> None, ret |-> Ok(None)]
    /\ UNCHANGED <<V, corpus, W, loaderVars, decoderVars>>

\* The unit vocabulary and the vocabulary file: objects of every class are
\* built, saved and loaded; units and ids are looked up in the unit
\* vocabularies (class Vocab).
VocabNext ==
    \/ \E kind \in Kinds : Construct(kind)
    \/ \E name \in {"V", "W"} :
          /\ Obj(name).cls = "Vocab"
          /\ \E unit \in CallUnits(Obj(name)) : CallUnit2id(name, unit)
    \/ \E name \in {"V", "W"} :
          /\ Obj(name).cls = "Vocab"
          /\ \E id \in CallIds(Obj(name)) : CallId2unit(name, id)
    \/ \E name \in {"V", "W"} : CallSave(name)

Spec == VocabInit /\ [][VocabNext]_vars

\* The composed vocabulary: one is built from a corpus and units are encoded
\* with it.
ComposedNext ==
    \/ /\ ~file.exists
       /\ \E kind \in Kinds : kind.cls = "ComposedVocab" /\ Construct(kind)
    \/ /\ V.cls = "ComposedVocab"
       /\ \E unit \in CallUnits(V) : CallUnit2id("V", unit)
    \/ /\ V.cls = "ComposedVocab"
       /\ \E id \in CallIds(V) : CallId2unit("V", id)

ComposedSpec == VocabInit /\ [][ComposedNext]_vars

-----------------------------------------------------------------------------
(* Properties of the unit vocabulary and of the vocabulary file *)

\* the last call was op, made on the object called name
Called(op, name) == last.op = op /\ last.on = name

\* C1: Vocab.unit2id never fails: for every unit that is not in the
\* vocabulary it returns the id of the UNK unit, whatever tables the
\* vocabulary was built or loaded with.
C1_UnknownUnitGetsUnkId ==
    \A name \in {"V", "W"} :
        (/\ Called("unit2id", name)
         /\ Obj(name).cls = "Vocab"
         /\ ~Vocab_contains(Obj(name), last.arg))
        => /\ last.ret.exc = "none"
           /\ DictHas(Obj(name).unit2id, UNK)
           /\ last.ret.val = DictGet(Obj(name).unit2id, UNK)

\* C2: Vocab.id2unit(i) fails with an out-of-range error for every integer i
\* outside [0, size), negative i included, and returns the unit with id i
\* only for 0 <= i < size.
C2_Id2unitFailsOutsideRange ==
    (Called("id2unit", "V") /\ V.cls = "Vocab")
    => LET i == last.arg.v IN
       IF 0 <= i /\ i < Vocab_len(V)
       THEN last.ret = Ok(V.id2unit.v[i + 1])
       ELSE last.ret.exc = "IndexError"

\* C3: save/load round trip: once a vocabulary V is built and saved, the file
\* holds V's two tables, every vocabulary loaded from the file has the same
\* id-to-unit and unit-to-id tables as V (same size, same mappings), and
\* saving again, from V or from a loaded vocabulary, leaves the bytes of the
\* file as V wrote them.
C3_SaveLoadRoundTrip ==
    file.exists
    => /\ V # NoObj
       /\ Vocab_load(file.bytes) = [id2unit |-> V.id2unit, unit2id |-> V.unit2id]
       /\ file.bytes = Vocab_save(V)
       /\ W # NoObj => /\ W.id2unit = V.id2unit
                       /\ W.unit2id = V.unit2id
                       /\ Vocab_len(W) = Vocab_len(V)
                       /\ Vocab_save(W) = file.bytes

C3_Witness ==
    /\ W # NoObj
    /\ Called("save", "W")
    /\ Vocab_len(V) >= 2
    /\ Len(corpus) >= 2

\* C4: for every unit u present in a built unit vocabulary (PAD, UNK and
\* every unit of the build corpus), id2unit(unit2id(u)) = u.
C4_Id2unitInvertsUnit2id ==
    (V # NoObj /\ V.cls = "Vocab")
    => LET present == Range(DictKeys(V.unit2id)) IN
       /\ Range(AllUnits(V, corpus)) \cup {PAD, UNK} \subseteq present
       /\ \A u \in present :
             LET r == Vocab_unit2id(V, u) IN
             /\ r.exc = "none"
             /\ r.val.t = "int"
             /\ Vocab_id2unit(V, r.val.v) = Ok(u)
       /\ (Called("unit2id", "V") /\ last.arg \in present)
          => Vocab_id2unit(V, last.ret.val.v) = Ok(last.arg)

C4_Witness ==
    /\ V # NoObj
    /\ V.cls = "Vocab"
    /\ Vocab_len(V) >= 4
    /\ Called("unit2id", "V")
    /\ last.arg \in Range(AllUnits(V, corpus))
    /\ last.ret.val.v >= 3

-----------------------------------------------------------------------------
(* Properties of the composed vocabulary *)

PositionalBuilt == V # NoObj /\ V.cls = "ComposedVocab" /\ ~V.keyed
KeyedBuilt == V # NoObj /\ V.cls = "ComposedVocab" /\ V.keyed

\* the parts of every unit of the build corpus, in corpus order
CorpusParts ==
    LET us == AllUnits(V, corpus)
    IN  [n \in 1..Len(us) |-> ComposedVocab_unit2parts(V, us[n]).val]

Max(S) == CHOOSE x \in S : \A y \in S : y <= x

\* F: the number of parts of the longest unit seen at build
NumFields == Max({Len(CorpusParts[n].v) : n \in 1..Len(CorpusParts)})

\* the sub-values seen for a field during build, in corpus order
FieldStream(key) ==
    Concat([n \in 1..Len(CorpusParts) |->
        LET parts == CorpusParts[n] IN
        IF V.keyed
        THEN IF DictHas(parts, key) THEN DictGet(parts, key).v ELSE <<>>
        ELSE IF key.v < Len(parts.v) THEN <<parts.v[key.v + 1]>> ELSE <<>>])

\* the sub-id of a sub-value: its position in the field's id-to-unit list
SubIdOf(key, x) ==
    LET lst == DictGet(V.id2unit, key).v
    IN  PyInt((CHOOSE j \in 1..Len(lst) : lst[j] = x) - 1)

\* C5: positional ComposedVocab.unit2id returns, for any unit, a list with
\* one entry per field index known at build time (F entries): entry i is the
\* sub-id of part i when the unit has a part i and that part was seen at
\* field i during build, and 0 otherwise; parts at positions >= F are
\* ignored.
C5_PositionalEncodeFixedLength ==
    (PositionalBuilt /\ Called("unit2id", "V"))
    => LET parts == ComposedVocab_unit2parts(V, last.arg).val.v IN
       /\ last.ret.exc = "none"
       /\ last.ret.val.t = "list"
       /\ Len(last.ret.val.v) = NumFields
       /\ \A i \in 0..(NumFields - 1) :
             last.ret.val.v[i + 1] =
                 IF i < Len(parts) /\ parts[i + 1] \in Range(FieldStream(PyInt(i)))
                 THEN SubIdOf(PyInt(i), parts[i + 1])
                 ELSE PyInt(0)

\* a unit shorter than F whose first part is known
C5_Witness ==
    /\ PositionalBuilt
    /\ Called("unit2id", "V")
    /\ NumFields >= 2
    /\ Len(ComposedVocab_unit2parts(V, last.arg).val.v) \in 1..(NumFields - 1)
    /\ last.ret.exc = "none"
    /\ last.ret.val.v[1].v >= 1
    /\ last.ret.val.v[NumFields] = PyInt(0)

\* the entry the keyed encoding is to hold for a field: the sub-ids of the
\* unit's values for the field (unseen standing for the sub-id of a value
\* never seen for the field), or [0] when the unit lacks the field
KeyedEntry(parts, key, unseen) ==
    IF DictHas(parts, key)
    THEN LET xs == DictGet(parts, key).v
         IN  PyList([j \in 1..Len(xs) |->
                 IF xs[j] \in Range(DictGet(V.id2unit, key).v)
                 THEN SubIdOf(key, xs[j]) ELSE unseen])
    ELSE PyList(<<PyInt(0)>>)

\* the unit is an attribute list: unit2parts reads it
IsAttributeList(unit) == ComposedVocab_unit2parts(V, unit).exc = "none"

\* the unit holds, for a field known at build time, a value never seen for it
HasUnseenValue(unit) ==
    LET parts == ComposedVocab_unit2parts(V, unit).val IN
    \E n \in 1..Len(V.id2unit.v) :
        LET key == V.id2unit.v[n][1] IN
        /\ DictHas(parts, key)
        /\ \E x \in Range(DictGet(parts, key).v) : x \notin Range(V.id2unit.v[n][2].v)

\* C6: keyed ComposedVocab.unit2id returns, for any attribute-list unit, one
\* entry per field key known at build time, in build order: the list of
\* sub-ids of the unit's values for the field when the unit has the field,
\* [0] when it has not ("_" has none); keys of the unit never seen at build
\* add no entry.
C6_KeyedEncodeEveryKnownField ==
    (KeyedBuilt /\ Called("unit2id", "V") /\ IsAttributeList(last.arg))
    => LET parts == ComposedVocab_unit2parts(V, last.arg).val
           fields == DictKeys(V.id2unit)
       IN  /\ last.ret.exc = "none"
           /\ Len(last.ret.val.v) = Len(fields)
           /\ \A n \in 1..Len(fields) :
                 /\ last.ret.val.v[n].t = "list"
                 /\ \A x \in Range(last.ret.val.v[n].v) : x.t = "int"
                 /\ ~HasUnseenValue(last.arg)
                    => last.ret.val.v[n] = KeyedEntry(parts, fields[n], None)

\* C7: keyed ComposedVocab.unit2id never fails on a lookup miss: a value
\* never seen for a known field is encoded as sub-id 0 and the call returns
\* normally, absent fields being [0].
C7_KeyedUnseenValueIsPad ==
    (KeyedBuilt /\ Called("unit2id", "V") /\ IsAttributeList(last.arg)
        /\ HasUnseenValue(last.arg))
    => LET parts == ComposedVocab_unit2parts(V, last.arg).val
           fields == DictKeys(V.id2unit)
       IN  /\ last.ret.exc = "none"
           /\ Len(last.ret.val.v) = Len(fields)
           /\ \A n \in 1..Len(fields) :
                 last.ret.val.v[n] = KeyedEntry(parts, fields[n], PyInt(0))

\* the position of the first occurrence of x in a sequence holding it
FirstPos(seq, x) == CHOOSE n \in 1..Len(seq) : seq[n] = x /\ \A m \in 1..(n - 1) : seq[m] # x

\* C8: after ComposedVocab.build_vocab every field's sub-vocabulary has PAD at
\* sub-id 0, its other sub-values are the sub-values seen for the field, in
\* order of first occurrence in the corpus and each listed once, and the
\* field's unit-to-id table is the exact inverse of its id-to-unit list.
C8_BuildFirstSeenOrderAndInverse ==
    (V # NoObj /\ V.cls = "ComposedVocab")
    => /\ DictKeys(V.unit2id) = DictKeys(V.id2unit)
       /\ \A n \in 1..Len(V.id2unit.v) :
             LET key == V.id2unit.v[n][1]
                 lst == V.id2unit.v[n][2].v
                 occ == FieldStream(key)
                 inv == V.unit2id.v[n][2]
             IN  /\ lst[1] = PAD
                 /\ \A a, b \in 1..Len(lst) : a # b => lst[a] # lst[b]
                 /\ {lst[a] : a \in 2..Len(lst)} = Range(occ)
                 /\ \A a, b \in 2..Len(lst) :
                       a < b => FirstPos(occ, lst[a]) < FirstPos(occ, lst[b])
                 /\ Len(inv.v) = Len(lst)
                 /\ \A a \in 1..Len(lst) :
                       DictHas(inv, lst[a]) /\ DictGet(inv, lst[a]) = PyInt(a - 1)

\* two fields, one of them with two sub-values of which the first recurs
C8_Witness ==
    /\ V # NoObj
    /\ V.cls = "ComposedVocab"
    /\ Len(V.id2unit.v) >= 2
    /\ \E n \in 1..Len(V.id2unit.v) :
          LET occ == FieldStream(V.id2unit.v[n][1]) IN
          /\ Len(V.id2unit.v[n][2].v) >= 3
          /\ Len(occ) > Cardinality(Range(occ))

-----------------------------------------------------------------------------
(* models/lemma/loader.py and models/mwt/data.py: DataLoader *)

MaxExamples == 3    \* rows of the file a DataLoader reads
MaxBatch == 3       \* batch_size

UNK_ID == 1
SOS == PyStr(<<"<", "S", "O", "S", ">">>)
EOS == PyStr(<<"<", "E", "O", "S", ">">>)

Ch(c) == PyStr(<<c>>)

\* the character vocabulary the vocabulary file holds
CharVocab ==
    LET units == <<PAD, UNK, SOS, EOS, Ch("a"), Ch("b")>>
    IN  [cls |-> "Vocab", sep |-> <<>>, keyed |-> FALSE, idx |-> 0,
         id2unit |-> PyList(units),
         unit2id |-> Enumerate(PyDict(<<>>), units, 0)]

\* the part-of-speech vocabulary the second vocabulary file holds
PosVocab ==
    LET units == <<PAD, UNK, Ch("N"), Ch("V")>>
    IN  [cls |-> "Vocab", sep |-> <<>>, keyed |-> FALSE, idx |-> 0,
         id2unit |-> PyList(units),
         unit2id |-> Enumerate(PyDict(<<>>), units, 0)]

\* rows of a lemmatizer file: (word, upos, lemma)
LemmaRows ==
    { << <<"a", "b">>, "N", <<"a">> >>,
      << <<"b", "z">>, "V", <<"b", "z">> >>,
      << <<>>, "X", <<>> >> }

\* rows of an expander file: (token, expansion); evaluation reads the token
MwtRows ==
    { << <<"a", "b">>, <<"a">> >>,
      << <<"b">>, <<"b", "a", "b">> >> }

RowsOf(task) == IF task = "lemma" THEN LemmaRows ELSE MwtRows

\* list(word): the characters of a string
CharList(w) == [i \in 1..Len(w) |-> Ch(w[i])]

\* map_to_ids(tokens, vocab) with the unit2id dict of a vocabulary
map_to_ids_dict(tokens, unit2id_) ==
    [i \in 1..Len(tokens) |->
        IF DictHas(unit2id_, tokens[i]) THEN DictGet(unit2id_, tokens[i]).v ELSE UNK_ID]

\* map_to_ids(tokens, vocab) with a Vocab object: t in vocab, vocab[t]
map_to_ids_vocab(tokens, vocab) ==
    [i \in 1..Len(tokens) |->
        IF Vocab_contains(vocab, tokens[i]) THEN Vocab_unit2id(vocab, tokens[i]).val.v
        ELSE UNK_ID]

\* edit.EDIT_TO_ID[edit.get_edit_type(word, lemma)]
EditTypeId(word, lemma) == IF word = lemma THEN 1 ELSE 0

\* a unit vocabulary over the given units, ids in their order
UnitVocab(units) ==
    [cls |-> "Vocab", sep |-> <<>>, keyed |-> FALSE, idx |-> 0,
     id2unit |-> PyList(units),
     unit2id |-> Enumerate(PyDict(<<>>), units, 0)]

\* the vocabularies built from the rows read when a vocabulary file is
\* missing: the reserved units, then the characters (the tags) of the rows
BuildCharVocab(task, data) ==
    LET chars == Concat([i \in 1..Len(data) |->
                     CharList(data[i][1]) \o
                     CharList(data[i][IF task = "lemma" THEN 3 ELSE 2])])
    IN  UnitVocab(FirstSeen(<<PAD, UNK, SOS, EOS>>, chars))

BuildPosVocab(data) ==
    UnitVocab(FirstSeen(<<PAD, UNK>>, [i \in 1..Len(data) |-> Ch(data[i][2])]))

\* init_vocab that builds whenever a file is missing
init_vocab_unguarded(task, files, eval, data) ==
    IF task = "lemma"
    THEN IF files.vocab /\ files.pos
         THEN Ok([vocab |-> CharVocab, pos_vocab |-> PosVocab, built |-> {}])
         ELSE Ok([vocab |-> BuildCharVocab(task, data), pos_vocab |-> BuildPosVocab(data),
                  built |-> {"vocab", "pos"}])
    ELSE IF files.vocab
         THEN Ok([vocab |-> CharVocab, pos_vocab |-> NoObj, built |-> {}])
         ELSE Ok([vocab |-> BuildCharVocab(task, data), pos_vocab |-> NoObj,
                  built |-> {"vocab"}])

\* DataLoader.init_vocab: the vocabularies are loaded when the files exist;
\* otherwise evaluation fails its assertion and training builds and saves
\* them from the rows read
init_vocab(task, files, eval, data) ==
    IF task = "lemma"
    THEN IF files.vocab /\ files.pos
         THEN Ok([vocab |-> CharVocab, pos_vocab |-> PosVocab, built |-> {}])
         ELSE IF eval THEN Raise("AssertionError")
         ELSE Ok([vocab |-> BuildCharVocab(task, data), pos_vocab |-> BuildPosVocab(data),
                  built |-> {"vocab", "pos"}])
    ELSE IF files.vocab
         THEN Ok([vocab |-> CharVocab, pos_vocab |-> NoObj, built |-> {}])
         ELSE IF eval THEN Raise("AssertionError")
         ELSE Ok([vocab |-> BuildCharVocab(task, data), pos_vocab |-> NoObj,
                  built |-> {"vocab"}])

\* lemma DataLoader.preprocess, one row
LemmaExample(d, vocab, pos_vocab) ==
    LET edit_type == EditTypeId(d[1], d[3])
        src == map_to_ids_dict(<<SOS>> \o CharList(d[1]) \o <<EOS>>, vocab.unit2id)
        pos == IF DictHas(pos_vocab.unit2id, Ch(d[2]))
               THEN DictGet(pos_vocab.unit2id, Ch(d[2])).v ELSE UNK_ID
        tgt == CharList(d[3])
        tgt_in == map_to_ids_dict(<<SOS>> \o tgt, vocab.unit2id)
        tgt_out == map_to_ids_dict(tgt \o <<EOS>>, vocab.unit2id)
    IN  <<src, tgt_in, tgt_out, pos, edit_type>>

\* mwt preprocess, one row, the target-output left without its end marker
MwtExample_no_eos(d, eval, vocab) ==
    LET src == map_to_ids_vocab(<<SOS>> \o CharList(d[1]) \o <<EOS>>, vocab)
        tgt == IF eval THEN [i \in 1..Len(src) |-> PyInt(src[i])] ELSE CharList(d[2])
    IN  <<src, map_to_ids_vocab(<<SOS>> \o tgt, vocab), map_to_ids_vocab(tgt, vocab)>>

\* mwt DataLoader.preprocess, one row
MwtExample(d, eval, vocab) ==
    LET src == map_to_ids_vocab(<<SOS>> \o CharList(d[1]) \o <<EOS>>, vocab)
        tgt == IF eval THEN [i \in 1..Len(src) |-> PyInt(src[i])] ELSE CharList(d[2])
        tgt_in == map_to_ids_vocab(<<SOS>> \o tgt, vocab)
        tgt_out == map_to_ids_vocab(tgt \o <<EOS>>, vocab)
    IN  <<src, tgt_in, tgt_out>>

\* DataLoader.preprocess
preprocess(task, data, eval, vocab, pos_vocab) ==
    [i \in 1..Len(data) |->
        IF task = "lemma" THEN LemmaExample(data[i], vocab, pos_vocab)
        ELSE MwtExample(data[i], eval, vocab)]

\* chunking that keeps full batches only
Chunks_full_only(data, batch_size) ==
    [c \in 1..(Len(data) \div batch_size) |->
        SubSeq(data, (c - 1) * batch_size + 1, c * batch_size)]

\* [data[i:i+batch_size] for i in range(0, len(data), batch_size)]
Chunks(data, batch_size) ==
    LET n == Len(data)
        starts == (n + batch_size - 1) \div batch_size
        end(i) == IF i + batch_size < n THEN i + batch_size ELSE n
    IN  [c \in 1..starts |->
            LET i == (c - 1) * batch_size IN SubSeq(data, i + 1, end(i))]

\* the orders of n positions: what random.shuffle and random.sample can yield
Perms(n) == { p \in [1..n -> 1..n] : \A i, j \in 1..n : i # j => p[i] # p[j] }

\* random.sample(data, keep): keep rows at distinct positions, in any order
Samples(data, keep) ==
    { [i \in 1..keep |-> data[p[i]]] : p \in Perms(Len(data)) }

\* zip(*batch): the columns of a chunk, one per field
Zip(chunk, nfields) == [f \in 1..nfields |-> [r \in 1..Len(chunk) |-> chunk[r][f]]]

\* the lengths taken from the target-input column
Lens_of_targets(cols) == [r \in 1..Len(cols[2]) |-> Len(cols[2][r])]

\* lens = [len(x) for x in batch[0]]
Lens(cols) == [r \in 1..Len(cols[1]) |-> Len(cols[1][r])]

\* sort_all(batch, lens): every column ordered by descending length, rows of
\* equal length in their order in the chunk, and orig_idx, the position each
\* row of the chunk has after the sort
SortRank(lens, i) ==
    Cardinality({k \in 1..Len(lens) : lens[k] > lens[i] \/ (lens[k] = lens[i] /\ k < i)})

sort_all(cols, lens) ==
    LET n == Len(lens)
        at(j) == CHOOSE i \in 1..n : SortRank(lens, i) = j - 1
    IN  [cols |-> [f \in 1..Len(cols) |-> [j \in 1..n |-> cols[f][at(j)]]],
         orig_idx |-> [i \in 1..n |-> SortRank(lens, i)]]

\* get_long_tensor(tokens_list, batch_size): rows padded with PAD_ID to the
\* longest
get_long_tensor(tokens_list, batch_size) ==
    LET token_len == Max({Len(tokens_list[r]) : r \in 1..Len(tokens_list)})
    IN  [r \in 1..batch_size |->
            [j \in 1..token_len |->
                IF j <= Len(tokens_list[r]) THEN tokens_list[r][j] ELSE PAD_ID]]

\* a mask of the positions that hold the UNK id
PadMask_of_unk(src) == [r \in 1..Len(src) |-> [j \in 1..Len(src[r]) |-> src[r][j] = UNK_ID]]

\* torch.eq(src, constant.PAD_ID)
PadMask(src) == [r \in 1..Len(src) |-> [j \in 1..Len(src[r]) |-> src[r][j] = PAD_ID]]

NumFieldsOf(task) == IF task = "lemma" THEN 5 ELSE 3

\* __getitem__ with the target-input tensor taken from the unsorted chunk
DataLoader_getitem_unsorted_targets(self, key) ==
    IF self.conll_only THEN [key |-> key, exc |-> "AttributeError"]
    ELSE IF key < 0 \/ key >= Len(self.data) THEN [key |-> key, exc |-> "IndexError"]
    ELSE LET chunk == self.data[key + 1]
             batch_size == Len(chunk)
             cols == Zip(chunk, NumFieldsOf(self.task))
             sorted == sort_all(cols, Lens(cols))
             src == get_long_tensor(sorted.cols[1], batch_size)
             tgt_in == get_long_tensor(cols[2], batch_size)
             tgt_out == get_long_tensor(sorted.cols[3], batch_size)
         IN  [key |-> key, exc |-> "none", rows |-> sorted.cols, src |-> src,
              src_mask |-> PadMask(src), tgt_in |-> tgt_in, tgt_out |-> tgt_out,
              pos |-> IF self.task = "lemma" THEN sorted.cols[4] ELSE <<>>,
              edits |-> IF self.task = "lemma" THEN sorted.cols[5] ELSE <<>>,
              orig_idx |-> sorted.orig_idx]

\* DataLoader.__getitem__: the batch returned, or the exception raised
DataLoader_getitem(self, key) ==
    IF self.conll_only THEN [key |-> key, exc |-> "AttributeError"]
    ELSE IF key < 0 \/ key >= Len(self.data) THEN [key |-> key, exc |-> "IndexError"]
    ELSE LET chunk == self.data[key + 1]
             batch_size == Len(chunk)
             cols == Zip(chunk, NumFieldsOf(self.task))
             lens == Lens(cols)
             sorted == sort_all(cols, lens)
             src == get_long_tensor(sorted.cols[1], batch_size)
             tgt_in == get_long_tensor(sorted.cols[2], batch_size)
             tgt_out == get_long_tensor(sorted.cols[3], batch_size)
         IN  IF Len(tgt_in[1]) # Len(tgt_out[1])
             THEN [key |-> key, exc |-> "AssertionError"]
             ELSE [key |-> key, exc |-> "none",
                   rows |-> sorted.cols,
                   src |-> src,
                   src_mask |-> PadMask(src),
                   tgt_in |-> tgt_in,
                   tgt_out |-> tgt_out,
                   pos |-> IF self.task = "lemma" THEN sorted.cols[4] ELSE <<>>,
                   edits |-> IF self.task = "lemma" THEN sorted.cols[5] ELSE <<>>,
                   orig_idx |-> sorted.orig_idx]

\* DataLoader.__init__
NewLoader(task, rows, batch_size, evaluation, conll_only, sample_train) ==
    /\ loader = NoLoader
    /\ IF conll_only
       THEN /\ loader' = [task |-> task, batch_size |-> batch_size, eval |-> evaluation,
                          shuffled |-> ~evaluation, conll_only |-> TRUE]
            /\ made' = [exc |-> "none", task |-> task, eval |-> evaluation,
                        conll_only |-> TRUE, built |-> {}, before |-> disk]
            /\ UNCHANGED <<examples, shuffled, disk>>
       ELSE \E vocabs \in {init_vocab(task, disk, evaluation, rows)} :
            IF vocabs.exc # "none"
            THEN /\ made' = [exc |-> vocabs.exc, task |-> task, eval |-> evaluation,
                             conll_only |-> FALSE, built |-> {}, before |-> disk]
                 /\ UNCHANGED <<loader, examples, shuffled, disk>>
            ELSE
            \E sampled \in IF sample_train /\ ~evaluation
                           THEN Samples(rows, Len(rows) \div 2) ELSE {rows} :
            \E data \in {preprocess(task, sampled, evaluation,
                                     vocabs.val.vocab, vocabs.val.pos_vocab)} :
            \E p \in IF ~evaluation THEN Perms(Len(data))
                                    ELSE {[i \in 1..Len(data) |-> i]} :
            \E data2 \in {[i \in 1..Len(data) |-> data[p[i]]]} :
                /\ examples' = data
                /\ shuffled' = data2
                /\ disk' = [vocab |-> disk.vocab \/ "vocab" \in vocabs.val.built,
                            pos |-> disk.pos \/ "pos" \in vocabs.val.built]
                /\ made' = [exc |-> "none", task |-> task, eval |-> evaluation,
                            conll_only |-> FALSE, built |-> vocabs.val.built,
                            before |-> disk]
                /\ loader' = [task |-> task, batch_size |-> batch_size,
                              eval |-> evaluation, shuffled |-> ~evaluation,
                              conll_only |-> FALSE,
                              num_examples |-> Len(data2),
                              data |-> Chunks(data2, batch_size)]
    /\ UNCHANGED <<batch, encoded, vocabVars, decoderVars>>

\* loader[key]; the caller fetches a batch between two runs of the model
GetItem(key) ==
    /\ loader # NoLoader
    /\ encoded = NoEncoded
    /\ batch' = DataLoader_getitem(loader, key)
    /\ UNCHANGED <<loader, examples, shuffled, disk, made, encoded, vocabVars,
                   decoderVars>>

\* the value a mask position has as a number
ByteOf(m) == IF m THEN 1 ELSE 0

\* per row, the number of positions the mask marks
src_lens_of_masked(src_mask) ==
    [r \in 1..Len(src_mask) |->
        Cardinality({j \in 1..Len(src_mask[r]) : ByteOf(src_mask[r][j]) # PAD_ID})]

\* list(src_mask.data.eq(constant.PAD_ID).long().sum(1).squeeze()): per row,
\* the number of positions whose mask value equals PAD_ID
src_lens(src_mask) ==
    [r \in 1..Len(src_mask) |->
        Cardinality({j \in 1..Len(src_mask[r]) : ByteOf(src_mask[r][j]) = PAD_ID})]

\* forward up to its call of encode (predict_greedy and predict start with
\* the same statements): the source lengths are derived from the mask of the
\* batch
EncodeBatch ==
    /\ batch.exc = "none"
    /\ encoded = NoEncoded
    /\ encoded' = [of |-> "batch", src_lens |-> src_lens(batch.src_mask)]
    /\ UNCHANGED <<loader, examples, shuffled, batch, disk, made, vocabVars, decoderVars>>

\* forward returns; the lengths were local to the call
ForwardReturn ==
    /\ encoded # NoEncoded
    /\ encoded' = NoEncoded
    /\ UNCHANGED <<loader, examples, shuffled, batch, disk, made, vocabVars, decoderVars>>

\* the keys the batches are asked for: every index of self.data, one below
\* and one above
Keys ==
    IF loader = NoLoader \/ loader.conll_only THEN {0}
    ELSE (0 - 1)..Len(loader.data)

\* before a DataLoader is constructed each vocabulary file exists or not
LoaderInit ==
    /\ VocabIdle
    /\ loader = NoLoader
    /\ examples = <<>>
    /\ shuffled = <<>>
    /\ batch = NoBatch
    /\ disk \in [vocab : BOOLEAN, pos : BOOLEAN]
    /\ made = NoMade
    /\ encoded = NoEncoded
    /\ DecoderIdle

LoaderNext ==
    \/ /\ loader = NoLoader
       /\ \E task \in {"lemma", "mwt"} :
          \E rows \in UNION { [1..n -> RowsOf(task)] : n \in 0..MaxExamples } :
          \E batch_size \in 1..MaxBatch :
          \E evaluation \in BOOLEAN :
          \E conll_only \in IF task = "lemma" THEN BOOLEAN ELSE {FALSE} :
          \E sample_train \in BOOLEAN :
              NewLoader(task, rows, batch_size, evaluation, conll_only, sample_train)
    \/ \E key \in Keys : GetItem(key)
    \/ EncodeBatch
    \/ ForwardReturn

LoaderSpec == LoaderInit /\ [][LoaderNext]_vars

-----------------------------------------------------------------------------
(* Properties of the DataLoader *)

\* the two sequences hold the same elements, each as many times
SameBag(a, b) ==
    \A x \in Range(a) \cup Range(b) :
        Cardinality({i \in 1..Len(a) : a[i] = x}) = Cardinality({i \in 1..Len(b) : b[i] = x})

\* C9: chunking in DataLoader.__init__: the batches are consecutive slices
\* whose concatenation is the example list after the optional shuffle, which
\* holds every example once; every batch has at most batch_size examples,
\* none is empty and only the last may have fewer than batch_size; in
\* evaluation mode the concatenation is the examples in their original
\* order.
C9_ChunksPartitionExamples ==
    (loader # NoLoader /\ ~loader.conll_only)
    => LET d == loader.data
           b == loader.batch_size
       IN  /\ Concat(d) = shuffled
           /\ SameBag(shuffled, examples)
           /\ loader.num_examples = Len(examples)
           /\ \A k \in 1..Len(d) :
                 /\ Len(d[k]) >= 1
                 /\ Len(d[k]) <= b
                 /\ k < Len(d) => Len(d[k]) = b
           /\ loader.eval => Concat(d) = examples

\* a shuffled training set whose last batch is short
C9_Witness ==
    /\ loader # NoLoader
    /\ ~loader.conll_only
    /\ ~loader.eval
    /\ shuffled # examples
    /\ Len(loader.data) = 2
    /\ Len(loader.data[2]) < loader.batch_size

\* the rows of the batch last returned, in the order the sort gave them
BatchRows ==
    [j \in 1..Len(batch.rows[1]) |->
        [f \in 1..Len(batch.rows) |-> batch.rows[f][j]]]

\* C10: in every batch returned by DataLoader.__getitem__ the rows are the
\* examples of the chunk ordered by descending source length, examples of
\* equal source length in the order they had in the chunk.
C10_RowsSortedByLengthStable ==
    batch.exc = "none"
    => LET chunk == loader.data[batch.key + 1]
           n == Len(chunk)
           rows == BatchRows
       IN  /\ Len(rows) = n
           /\ Len(batch.src) = n
           /\ \A j \in 1..n : SubSeq(batch.src[j], 1, Len(rows[j][1])) = rows[j][1]
           /\ \A j, k \in 1..n : j < k => Len(rows[j][1]) >= Len(rows[k][1])
           /\ \E p \in Perms(n) :
                 /\ \A j \in 1..n : rows[j] = chunk[p[j]]
                 /\ \A j, k \in 1..n :
                       (j < k /\ Len(rows[j][1]) = Len(rows[k][1])) => p[j] < p[k]

\* a chunk the sort reorders, two of its rows being different examples of
\* one source length
C10_Witness ==
    /\ batch.exc = "none"
    /\ LET chunk == loader.data[batch.key + 1] IN
       /\ BatchRows # chunk
       /\ \E j, k \in 1..Len(chunk) :
             /\ j < k
             /\ Len(chunk[j][1]) = Len(chunk[k][1])
             /\ chunk[j] # chunk[k]

\* a row of a padded tensor holds the tokens of seq, then PAD ids only
PaddedFrom(row, seq) ==
    /\ Len(row) >= Len(seq)
    /\ \A j \in 1..Len(row) : row[j] = IF j <= Len(seq) THEN seq[j] ELSE PAD_ID

\* C11: the orig_idx returned with every batch is a bijection on
\* [0, batch_size) and sorted[orig_idx[i]] is the i-th example of the chunk
\* in every field at once: source, target-input, target-output and the
\* scalar fields, so indexing the sorted rows by orig_idx restores the
\* chunk's order.
C11_OrigIdxRestoresChunkOrder ==
    batch.exc = "none"
    => LET chunk == loader.data[batch.key + 1]
           n == Len(chunk)
           o == batch.orig_idx
       IN  /\ Len(o) = n
           /\ {o[i] : i \in 1..n} = 0..(n - 1)
           /\ \A i \in 1..n :
                 LET j == o[i] + 1 IN
                 /\ PaddedFrom(batch.src[j], chunk[i][1])
                 /\ PaddedFrom(batch.tgt_in[j], chunk[i][2])
                 /\ PaddedFrom(batch.tgt_out[j], chunk[i][3])
                 /\ loader.task = "lemma" =>
                       /\ batch.pos[j] = chunk[i][4]
                       /\ batch.edits[j] = chunk[i][5]

\* a lemmatizer batch of three examples that the sort moved, whose targets
\* and scalar fields differ from row to row
C11_Witness ==
    /\ batch.exc = "none"
    /\ loader.task = "lemma"
    /\ Len(batch.orig_idx) = 3
    /\ batch.orig_idx # <<0, 1, 2>>
    /\ Cardinality(Range(batch.pos)) >= 2
    /\ Cardinality(Range(batch.tgt_in)) >= 2

\* C12: in every batch each sequence-valued field is padded with the PAD id
\* 0 up to the maximum length of that field in the batch, the token ids
\* before each row's length are unchanged, and src_mask is true exactly at
\* the padded positions of src.
C12_PaddedToMaxAndMasked ==
    batch.exc = "none"
    => LET chunk == loader.data[batch.key + 1]
           n == Len(chunk)
           tensor(f) == IF f = 1 THEN batch.src
                        ELSE IF f = 2 THEN batch.tgt_in ELSE batch.tgt_out
       IN  /\ \A f \in 1..3 :
                 /\ Len(tensor(f)) = n
                 /\ \A r \in 1..n :
                       /\ Len(tensor(f)[r]) = Max({Len(chunk[i][f]) : i \in 1..n})
                       /\ PaddedFrom(tensor(f)[r], batch.rows[f][r])
           /\ Len(batch.src_mask) = n
           /\ \A r \in 1..n :
                 /\ Len(batch.src_mask[r]) = Len(batch.src[r])
                 /\ \A j \in 1..Len(batch.src[r]) :
                       batch.src_mask[r][j] <=> j > Len(batch.rows[1][r])

\* a batch with a padded source row, a padded target row and an
\* out-of-vocabulary character in a source
C12_Witness ==
    /\ batch.exc = "none"
    /\ \E r \in 1..Len(batch.src) :
          /\ Len(batch.rows[1][r]) < Len(batch.src[r])
          /\ batch.src_mask[r][Len(batch.src[r])]
    /\ \E r \in 1..Len(batch.src) : Len(batch.rows[2][r]) < Len(batch.tgt_in[r])
    /\ \E r \in 1..Len(batch.src) : UNK_ID \in Range(batch.rows[1][r])

\* the word (the lemma) an example was made from is empty: its source holds
\* the start and end markers only (its target-input the start marker only)
EmptyWord(example) == Len(example[1]) = 2
EmptyLemma(example) == Len(example[2]) = 1

\* C13: batch assembly fails whenever an example has zero length: no batch
\* is produced that holds an example whose source word or lemma is the
\* empty sequence.
C13_EmptyExampleRejected ==
    batch.exc = "none"
    => LET chunk == loader.data[batch.key + 1] IN
       \A r \in 1..Len(chunk) : ~EmptyWord(chunk[r]) /\ ~EmptyLemma(chunk[r])

\* the vocabulary files the loader of a task needs are not all there
MissingVocab(task, files) ==
    IF task = "lemma" THEN ~(files.vocab /\ files.pos) ELSE ~files.vocab

\* C14: a DataLoader constructed in evaluation mode (not conll_only) with a
\* required vocabulary file missing fails at once with an assertion error:
\* no data is preprocessed, no vocabulary is built or written; a vocabulary
\* is built and saved in training mode only.
C14_EvalWithoutVocabFails ==
    made.exc # "nocall"
    => /\ (made.eval /\ ~made.conll_only /\ MissingVocab(made.task, made.before))
          => /\ made.exc = "AssertionError"
             /\ loader = NoLoader
             /\ examples = <<>>
             /\ made.built = {}
             /\ disk = made.before
       /\ made.built # {} => ~made.eval
       /\ made.built = {} => disk = made.before

\* an evaluation loader refused for its missing file, the other file of the
\* lemmatizer being there
C14_Witness ==
    /\ made.exc = "AssertionError"
    /\ made.task = "lemma"
    /\ made.before.vocab
    /\ ~made.before.pos

\* C19: for every batch __getitem__ builds from preprocessed examples (the
\* lemma loader, the mwt loader in training and in evaluation mode) the
\* padded target-input and target-output tensors have the same sequence
\* length, so the shape assertion never fires.
C19_TargetShapesAgree ==
    /\ batch.exc # "AssertionError"
    /\ \A i \in 1..Len(examples) : Len(examples[i][2]) = Len(examples[i][3])
    /\ batch.exc = "none"
       => \A r \in 1..Len(batch.tgt_in) : Len(batch.tgt_in[r]) = Len(batch.tgt_out[r])

\* an evaluation batch of the expander whose targets, the placeholder
\* sources, have different lengths
C19_Witness ==
    /\ batch.exc = "none"
    /\ loader.task = "mwt"
    /\ loader.eval
    /\ \E r, q \in 1..Len(batch.rows[2]) : Len(batch.rows[2][r]) < Len(batch.rows[2][q])

-----------------------------------------------------------------------------
(* models/lemma/seq2seq_model.py: Seq2SeqModel.predict_greedy and predict. *)
(* The step model (encode, decode) is external: what it returns is drawn   *)
(* from small sets.                                                         *)

MaxDecLen == 3      \* self.max_dec_len of a greedy run
MaxBeamDecLen == 2  \* self.max_dec_len of a beam-search run
BeamSize == 2       \* beam_size

SOS_ID == 2
EOS_ID == 3

\* batch sizes of the batches decoded
DecodeBatchSizes == {1, 2}

\* self.vocab_size
vocab_size == Vocab_len(CharVocab)

\* the tokens the step model scores highest
StepTokens == {EOS_ID, DictGet(CharVocab.unit2id, Ch("a")).v,
               DictGet(CharVocab.unit2id, Ch("b")).v}

\* done[i] == True: a comparison whose value is dropped; done stays as it is
MarkDone(done, i) == done

\* predict_greedy, the body of "for i in range(batch_size)" for one example
GreedyRow(g, token, i) ==
    IF ~g.done[i]
    THEN IF token = EOS_ID
         THEN [g EXCEPT !.done = MarkDone(g.done, i), !.total_done = @ + 1]
         ELSE [g EXCEPT !.output_seqs[i] = Append(@, token)]
    ELSE g

RECURSIVE GreedyRows(_, _, _)
GreedyRows(g, preds, i) ==
    IF i > g.batch_size THEN g ELSE GreedyRows(GreedyRow(g, preds[i], i), preds, i + 1)

\* the loop condition without its bound on max_len
GreedyLoops_unbounded(g) == g.total_done < g.batch_size

\* while total_done < batch_size and max_len < self.max_dec_len
GreedyLoops(g) == g.total_done < g.batch_size /\ g.max_len < g.max_dec_len

\* predict_greedy up to its loop
PredictGreedy(batch_size, max_dec_len) ==
    /\ greedy = NoGreedy
    /\ search = NoSearch
    /\ greedy' = [pc |-> "loop", batch_size |-> batch_size, max_dec_len |-> max_dec_len,
                  done |-> [i \in 1..batch_size |-> FALSE],
                  total_done |-> 0, max_len |-> 0,
                  output_seqs |-> [i \in 1..batch_size |-> <<>>],
                  trace |-> <<>>]
    /\ UNCHANGED <<search, vocabVars, loaderVars>>

\* one pass of the while loop: decode a step, preds the best token of each
\* example
GreedyStep(preds) ==
    /\ greedy.pc = "loop"
    /\ GreedyLoops(greedy)
    /\ greedy' = GreedyRows([greedy EXCEPT !.max_len = @ + 1,
                                           !.trace = Append(@, preds)], preds, 1)
    /\ UNCHANGED <<search, vocabVars, loaderVars>>

\* the loop condition fails: return output_seqs
GreedyReturn ==
    /\ greedy.pc = "loop"
    /\ ~GreedyLoops(greedy)
    /\ greedy' = [greedy EXCEPT !.pc = "returned"]
    /\ UNCHANGED <<search, vocabVars, loaderVars>>

\* the score of a beam slot that holds no hypothesis yet
NegInf == 0 - 1000

\* Beam(size): every slot holds the start token; slot 0 has score 0, the
\* others the lowest score
Beam_new(size) ==
    [size |-> size, done |-> FALSE,
     scores |-> [k \in 1..size |-> IF k = 1 THEN 0 ELSE NegInf],
     prevKs |-> <<>>,
     nextYs |-> << [k \in 1..size |-> SOS_ID] >>]

\* Beam.advance(step_log_probs): the cumulative scores are added to the rows,
\* the size best of the flattened scores are kept, in the order of the
\* selection, each with its parent slot and its token; the beam is done
\* once the best of them emits EOS
Beam_advance(beam, lp) ==
    LET K == beam.size
        N == K * vocab_size
        score(idx) == beam.scores[(idx \div vocab_size) + 1]
                      + lp[(idx \div vocab_size) + 1][(idx % vocab_size) + 1]
        rank(idx) == Cardinality({j \in 0..(N - 1) :
                        score(j) > score(idx) \/ (score(j) = score(idx) /\ j < idx)})
        best == [r \in 1..K |-> CHOOSE idx \in 0..(N - 1) : rank(idx) = r - 1]
        nextY == [r \in 1..K |-> best[r] % vocab_size]
    IN  [beam EXCEPT !.scores = [r \in 1..K |-> score(best[r])],
                     !.prevKs = Append(@, [r \in 1..K |-> best[r] \div vocab_size]),
                     !.nextYs = Append(@, nextY),
                     !.done = @ \/ nextY[1] = EOS_ID]

\* Beam.get_current_state(): the tokens of the latest step
Beam_get_current_state(beam) == beam.nextYs[Len(beam.nextYs)]

\* Beam.get_current_origin(): the back-pointers of the latest step
Beam_get_current_origin(beam) == beam.prevKs[Len(beam.prevKs)]

\* Beam.sort_best(): the slots by descending score, equal scores in slot
\* order
Beam_sort_best(beam) ==
    LET K == beam.size
        rank(k) == Cardinality({j \in 1..K : beam.scores[j] > beam.scores[k]
                                   \/ (beam.scores[j] = beam.scores[k] /\ j < k)})
    IN  [r \in 1..K |-> (CHOOSE k \in 1..K : rank(k) = r - 1) - 1]

\* Beam.get_hyp(k): the tokens on the back-pointer path that ends in slot k
\* of step j, the start token left out
RECURSIVE Beam_hyp_upto(_, _, _)
Beam_hyp_upto(beam, j, k) ==
    IF j = 0 THEN <<>>
    ELSE Append(Beam_hyp_upto(beam, j - 1, beam.prevKs[j][k + 1]), beam.nextYs[j + 1][k + 1])

Beam_get_hyp(beam, k) == Beam_hyp_upto(beam, Len(beam.prevKs), k)

\* utils.prune_hyp(hyp): the tokens before the first EOS
RECURSIVE prune_hyp(_)
prune_hyp(hyp) ==
    IF hyp = <<>> \/ Head(hyp) = EOS_ID THEN <<>>
    ELSE <<Head(hyp)>> \o prune_hyp(Tail(hyp))

\* a row of the decoder's hidden state (hn or cn): the decoder copies rows
\* and never looks into them, so a row is named by the call that made it
StateRow(of, step, row) == [of |-> of, step |-> step, row |-> row]

\* the rows the step model can return for one row of the decoder input: a
\* confident row (EOS at 0, every other token at -1) and an unsure row (a
\* character at -2, every other token at -3)
LogProbRows ==
    { [w \in 1..vocab_size |-> IF w = EOS_ID + 1 THEN 0 ELSE 0 - 1],
      [w \in 1..vocab_size |->
          IF w = DictGet(CharVocab.unit2id, Ch("a")).v + 1 THEN 0 - 2 ELSE 0 - 3] }

\* update_state with the rows of an example taken to be adjacent
update_state_example_major(states, idx, positions, beam_size) ==
    [e \in 1..Len(states) |->
        [r \in 1..Len(states[e]) |->
            LET b == (r - 1) \div beam_size
                k == (r - 1) % beam_size
            IN  IF b = idx THEN states[e][idx * beam_size + positions[k + 1] + 1]
                ELSE states[e][r]]]

\* update_state(states, idx, positions, beam_size): in each state tensor,
\* viewed as (beam_size, batch, d), the rows [:, idx] become the rows
\* index_select(0, positions) of themselves
update_state(states, idx, positions, beam_size) ==
    [e \in 1..Len(states) |->
        LET br == Len(states[e])
            batch_ == br \div beam_size
        IN  [r \in 1..br |->
                LET k == (r - 1) \div batch_
                    b == (r - 1) % batch_
                IN  IF b = idx THEN states[e][positions[k + 1] * batch_ + idx + 1]
                    ELSE states[e][r]]]

\* predict up to its main loop: encode, repeat the encoder's state for
\* every beam slot, one Beam per example
Predict(batch_size, beam_size, max_dec_len) ==
    /\ greedy = NoGreedy
    /\ search = NoSearch
    /\ search' = [pc |-> "loop", batch_size |-> batch_size, beam_size |-> beam_size,
                  max_dec_len |-> max_dec_len, i |-> 0, b |-> 0,
                  states |-> [e \in 1..2 |->
                      [r \in 1..(beam_size * batch_size) |->
                          StateRow(IF e = 1 THEN "hn" ELSE "cn", 0,
                                   (r - 1) % batch_size)]],
                  beam |-> [b \in 1..batch_size |-> Beam_new(beam_size)],
                  log_probs |-> <<>>, done |-> <<>>, all_hyp |-> <<>>]
    /\ UNCHANGED <<greedy, vocabVars, loaderVars>>

\* the head of a pass of the main loop: the step model decodes one step for
\* all rows, and its output is viewed as [batch, beam, V]
SearchDecode(flat) ==
    /\ search.pc = "loop"
    /\ search.i < search.max_dec_len
    /\ search' = [search EXCEPT
          !.pc = "advance",
          !.states = [e \in 1..2 |-> [r \in 1..Len(search.states[e]) |->
                         StateRow(IF e = 1 THEN "hn" ELSE "cn", search.i + 1, r - 1)]],
          !.log_probs = [b \in 1..search.batch_size |->
                            [k \in 1..search.beam_size |->
                                flat[(k - 1) * search.batch_size + b]]],
          !.done = <<>>,
          !.b = 0]
    /\ UNCHANGED <<greedy, vocabVars, loaderVars>>

\* the body of "for b in range(batch_size)": advance beam b, note it when
\* it reports done, and reorder its rows of the hidden state
SearchAdvance ==
    /\ search.pc = "advance"
    /\ LET b == search.b
           advanced == Beam_advance(search.beam[b + 1], search.log_probs[b + 1])
           is_done == advanced.done
       IN  search' = [search EXCEPT
              !.beam[b + 1] = advanced,
              !.done = IF is_done THEN Append(@, b) ELSE @,
              !.states = update_state(@, b, Beam_get_current_origin(advanced),
                                      search.beam_size),
              !.b = b + 1,
              !.pc = IF b + 1 < search.batch_size THEN "advance" ELSE "endstep"]
    /\ UNCHANGED <<greedy, vocabVars, loaderVars>>

\* if len(done) == batch_size: break; otherwise the next pass
SearchEndStep ==
    /\ search.pc = "endstep"
    /\ search' = [search EXCEPT
          !.pc = IF Len(search.done) = search.batch_size THEN "break" ELSE "loop",
          !.i = IF Len(search.done) = search.batch_size THEN @ ELSE @ + 1]
    /\ UNCHANGED <<greedy, vocabVars, loaderVars>>

\* after the loop: the best hypothesis of every beam, pruned
SearchReturn ==
    /\ \/ search.pc = "break"
       \/ search.pc = "loop" /\ search.i >= search.max_dec_len
    /\ search' = [search EXCEPT
          !.pc = "returned",
          !.all_hyp = [b \in 1..search.batch_size |->
                          prune_hyp(Beam_get_hyp(search.beam[b],
                                                 Beam_sort_best(search.beam[b])[1]))]]
    /\ UNCHANGED <<greedy, vocabVars, loaderVars>>

DecoderInit == VocabIdle /\ LoaderIdle /\ DecoderIdle

DecoderNext ==
    \/ \E batch_size \in DecodeBatchSizes : \E max_dec_len \in 1..MaxDecLen :
           PredictGreedy(batch_size, max_dec_len)
    \/ /\ greedy.pc = "loop"
       /\ \E preds \in [1..greedy.batch_size -> StepTokens] : GreedyStep(preds)
    \/ GreedyReturn
    \/ \E batch_size \in DecodeBatchSizes : \E beam_size \in 1..BeamSize :
       \E max_dec_len \in 1..MaxBeamDecLen :
           Predict(batch_size, beam_size, max_dec_len)
    \/ /\ search.pc = "loop"
       /\ \E flat \in [1..(search.beam_size * search.batch_size) -> LogProbRows] :
              SearchDecode(flat)
    \/ SearchAdvance
    \/ SearchEndStep
    \/ SearchReturn

DecoderSpec == DecoderInit /\ [][DecoderNext]_vars

-----------------------------------------------------------------------------
(* Properties of the decoders *)

\* the beam-search run is under way or has returned
Searching == search.pc # "idle"

\* C15: the maximum decode length is always enforced: whatever the step
\* model returns, predict and predict_greedy each perform at most
\* max_dec_len decoding steps, and stop decoding once they have, also when
\* no hypothesis ever emits EOS.
C15_MaxDecLenEnforced ==
    /\ greedy.pc # "idle"
       => /\ Len(greedy.trace) = greedy.max_len
          /\ greedy.max_len <= greedy.max_dec_len
          /\ greedy.max_len = greedy.max_dec_len => ~GreedyLoops(greedy)
    /\ Searching
       => /\ search.i <= search.max_dec_len
          /\ \A e \in 1..2 : \A r \in 1..Len(search.states[e]) :
                search.states[e][r].step <= search.max_dec_len
          /\ \A b \in 1..search.batch_size :
                Len(search.beam[b].prevKs) <= search.max_dec_len
          /\ search.pc \in {"advance", "endstep"} => search.i < search.max_dec_len

\* a beam search that returned after max_dec_len steps, the longest run
\* explored, no beam having had EOS on top
C15_Witness ==
    /\ search.pc = "returned"
    /\ search.max_dec_len = MaxBeamDecLen
    /\ search.i = search.max_dec_len
    /\ \A b \in 1..search.batch_size :
          /\ ~search.beam[b].done
          /\ Len(search.beam[b].prevKs) = search.max_dec_len

\* C16: a beam that never has EOS on top within max_dec_len steps is marked
\* DONE when the caller reaches max_dec_len and its best-so-far hypothesis
\* is returned, without an error: when predict returns, every beam of the
\* batch is DONE.
C16_AllBeamsDoneAtReturn ==
    search.pc = "returned"
    => /\ Len(search.all_hyp) = search.batch_size
       /\ \A b \in 1..search.batch_size : search.beam[b].done

\* C17: the caller stops advancing a DONE beam: once the beam of example b
\* is DONE, no later step of the batch calls advance on it, and its scores,
\* tokens and back-pointers stay as they were.
C17_DoneBeamNotAdvanced ==
    [][ IF Searching /\ search'.pc # "idle"
        THEN /\ search.pc = "advance" => ~search.beam[search.b + 1].done
             /\ \A b \in 1..search.batch_size :
                   search.beam[b].done => search'.beam[b] = search.beam[b]
        ELSE TRUE ]_vars

\* C18: beams of one batch are independent: the pass of the inner loop for
\* example b (advance, then update_state) changes only beam b and the rows
\* k*batch_size + b of the hidden state, which it fills from those same
\* rows; the beams and rows of every other example stay as they were.
C18_BeamsIndependent ==
    [][ (search.pc = "advance")
        => LET b == search.b
               B == search.batch_size
           IN  /\ \A c \in 1..B : c # b + 1 => search'.beam[c] = search.beam[c]
               /\ \A e \in 1..2 : \A r \in 1..Len(search.states[e]) :
                     IF (r - 1) % B # b
                     THEN search'.states[e][r] = search.states[e][r]
                     ELSE \E k \in 0..(search.beam_size - 1) :
                             search'.states[e][r] = search.states[e][k * B + b + 1] ]_vars

\* in a batch of two, the first beam has advanced from its second slot
\* first: its rows of the hidden state are exchanged, and the rows of the
\* second example are where the step model put them
C18_Witness ==
    /\ search.pc = "advance"
    /\ search.batch_size = 2
    /\ search.beam_size = 2
    /\ search.b = 1
    /\ Beam_get_current_origin(search.beam[1]) = <<1, 0>>
    /\ search.states[1][1].row = 2
    /\ search.states[1][3].row = 0
    /\ search.states[1][2].row = 1
    /\ search.states[1][4].row = 3

\* the tokens of a sequence before its first EOS
BeforeEos(seq) == prune_hyp(seq)

\* C20: predict_greedy returns for every example exactly the tokens
\* predicted for it before its first predicted EOS: nothing predicted after
\* that EOS is appended, and EOS is never part of the output.
C20_GreedyOutputStopsAtEos ==
    greedy.pc # "idle"
    => \A i \in 1..greedy.batch_size :
          greedy.output_seqs[i] =
              BeforeEos([t \in 1..Len(greedy.trace) |-> greedy.trace[t][i]])

\* the examples that have predicted EOS at some step so far
PredictedEos ==
    {i \in 1..greedy.batch_size :
        \E t \in 1..Len(greedy.trace) : greedy.trace[t][i] = EOS_ID}

\* C21: in predict_greedy, at the end of every decoding step total_done is
\* the number of distinct examples that have predicted EOS so far, each
\* counted once, so total_done <= batch_size; hence the loop exits before
\* max_dec_len steps only when every example has predicted EOS.
C21_TotalDoneCountsExamplesOnce ==
    greedy.pc # "idle"
    => /\ greedy.total_done = Cardinality(PredictedEos)
       /\ greedy.total_done <= greedy.batch_size
       /\ (greedy.pc = "returned" /\ greedy.max_len < greedy.max_dec_len)
          => PredictedEos = 1..greedy.batch_size

\* C22: for every batch the loader produces, the source lengths that
\* forward, predict and predict_greedy derive from src_mask (per row, the
\* number of positions whose mask value equals PAD_ID = 0) are the true
\* unpadded lengths of the examples and are non-increasing from the first
\* row to the last, as packing the padded sequences in encode requires.
C22_SrcLensTrueAndSorted ==
    encoded # NoEncoded
    => LET lens == encoded.src_lens
           chunk == loader.data[batch.key + 1]
           n == Len(chunk)
       IN  /\ Len(lens) = n
           /\ \A r \in 1..n : lens[r] = Len(batch.rows[1][r])
           /\ \A i \in 1..n : lens[batch.orig_idx[i] + 1] = Len(chunk[i][1])
           /\ \A r \in 1..n : lens[r] >= 1
           /\ \A r \in 1..(n - 1) : lens[r] >= lens[r + 1]

\* the lengths of a batch of three that the sort moved, whose last row is
\* padded
C22_Witness ==
    /\ encoded # NoEncoded
    /\ Len(encoded.src_lens) = 3
    /\ batch.orig_idx # <<0, 1, 2>>
    /\ encoded.src_lens[1] > encoded.src_lens[3]
    /\ encoded.src_lens[3] < Len(batch.src[3])

====
